---- MODULE Spec2Model ----
(***************************************************************************)
(* Sales API (routes/sales.routes.js over the sales_data table).           *)
(*                                                                         *)
(* The handlers are translated one action each; the List handler, whose    *)
(* two reads are awaited through Promise.all, is split at its two storage  *)
(* reads.  JavaScript values are modelled explicitly (undefined, null,     *)
(* NaN, numbers, strings, dates) so that truthiness tests, parseInt,       *)
(* parseFloat, isNaN and toFixed behave as in the runtime.                 *)
(*                                                                         *)
(* Numbers are fixed-point integers counting thousandths (Scale), strings  *)
(* are sequences of one-character strings.                                 *)
(***************************************************************************)
EXTENDS Integers, Sequences, FiniteSets, TLC

VARIABLES table, uniqueIdx, last, list

vars == <<table, uniqueIdx, last, list>>

----------------------------------------------------------------------------
(* JavaScript values *)

\* fixed-point resolution of the model's numbers: thousandths
Scale == 1000

JSV(t, n, s) == [t |-> t, n |-> n, s |-> s]
Undef == JSV("undefined", 0, <<>>)
Null == JSV("null", 0, <<>>)
NaN == JSV("NaN", 0, <<>>)
Num(n) == JSV("number", n, <<>>)
Whole(i) == Num(i * Scale)
Str(s) == JSV("string", 0, s)
DateV(d) == JSV("date", d, <<>>)
InvalidDate == JSV("invalid-date", 0, <<>>)

IsNum(v) == v.t = "number"
IsStr(v) == v.t = "string"
IsInteger(v) == v.t = "number" /\ v.n % Scale = 0

\* ToBoolean: the falsy values are undefined, null, NaN, 0 and ""
Truthy(v) ==
    CASE v.t = "undefined" -> FALSE
      [] v.t = "null" -> FALSE
      [] v.t = "NaN" -> FALSE
      [] v.t = "number" -> v.n # 0
      [] v.t = "string" -> v.s # <<>>
      [] OTHER -> TRUE

Digits == <<"0", "1", "2", "3", "4", "5", "6", "7", "8", "9">>

IsDigit(c) == c \in {"0", "1", "2", "3", "4", "5", "6", "7", "8", "9"}

DigitVal(c) ==
    CASE c = "0" -> 0 [] c = "1" -> 1 [] c = "2" -> 2 [] c = "3" -> 3 [] c = "4" -> 4
      [] c = "5" -> 5 [] c = "6" -> 6 [] c = "7" -> 7 [] c = "8" -> 8 [] c = "9" -> 9

Abs(i) == IF i < 0 THEN -i ELSE i

RECURSIVE NatToChars(_)
NatToChars(i) ==
    IF i < 10 THEN <<Digits[i + 1]>>
    ELSE NatToChars(i \div 10) \o <<Digits[(i % 10) + 1]>>

RECURSIVE DropTrailingZeros(_)
DropTrailingZeros(s) ==
    IF s # <<>> /\ s[Len(s)] = "0" THEN DropTrailingZeros(SubSeq(s, 1, Len(s) - 1))
    ELSE s

\* the three decimals of a thousandths remainder, zero padded
Frac3(r) == <<Digits[(r \div 100) + 1], Digits[((r \div 10) % 10) + 1], Digits[(r % 10) + 1]>>

\* Number.prototype.toString for the finite numbers of the model
NumToChars(n) ==
    LET a == Abs(n)
        f == DropTrailingZeros(Frac3(a % Scale))
    IN  (IF n < 0 THEN <<"-">> ELSE <<>>)
        \o NatToChars(a \div Scale)
        \o (IF f = <<>> THEN <<>> ELSE <<".">> \o f)

\* String(v)
ToChars(v) ==
    CASE v.t = "string" -> v.s
      [] v.t = "number" -> NumToChars(v.n)
      [] v.t = "NaN" -> <<"N", "a", "N">>
      [] v.t = "null" -> <<"n", "u", "l", "l">>
      [] v.t = "undefined" -> <<"u", "n", "d", "e", "f", "i", "n", "e", "d">>
      [] OTHER -> <<"D", "a", "t", "e">>

RECURSIVE TrimLeft(_)
TrimLeft(s) == IF s # <<>> /\ s[1] = " " THEN TrimLeft(Tail(s)) ELSE s

RECURSIVE TrimRight(_)
TrimRight(s) ==
    IF s # <<>> /\ s[Len(s)] = " " THEN TrimRight(SubSeq(s, 1, Len(s) - 1)) ELSE s

RECURSIVE DigitPrefixLen(_)
DigitPrefixLen(s) ==
    IF s # <<>> /\ IsDigit(s[1]) THEN 1 + DigitPrefixLen(Tail(s)) ELSE 0

RECURSIVE DigitsValue(_)
DigitsValue(s) ==
    IF s = <<>> THEN 0
    ELSE DigitsValue(SubSeq(s, 1, Len(s) - 1)) * 10 + DigitVal(s[Len(s)])

Drop(s, k) == SubSeq(s, k + 1, Len(s))

\* an optional sign: <<sign, rest>>
ScanSign(s) ==
    IF s # <<>> /\ s[1] = "-" THEN <<-1, Tail(s)>>
    ELSE IF s # <<>> /\ s[1] = "+" THEN <<1, Tail(s)>>
    ELSE <<1, s>>

\* thousandths denoted by a run of fraction digits (digits past the third are dropped)
FracValue(ds) ==
    LET d(i) == IF i <= Len(ds) THEN DigitVal(ds[i]) ELSE 0
    IN  d(1) * 100 + d(2) * 10 + d(3)

\* the longest decimal literal [+-]digits[.digits] or [+-].digits at the head of s:
\* [ok, n, rest]
ScanDecimal(s) ==
    LET sg == ScanSign(s)
        s1 == sg[2]
        ni == DigitPrefixLen(s1)
        s2 == Drop(s1, ni)
        dot == s2 # <<>> /\ s2[1] = "."
        nf == IF dot THEN DigitPrefixLen(Tail(s2)) ELSE 0
        takeDot == dot /\ (ni > 0 \/ nf > 0)
        iv == DigitsValue(SubSeq(s1, 1, ni))
        fv == IF takeDot THEN FracValue(SubSeq(Tail(s2), 1, nf)) ELSE 0
    IN  [ok |-> ni > 0 \/ nf > 0,
         n |-> sg[1] * (iv * Scale + fv),
         rest |-> IF takeDot THEN Drop(Tail(s2), nf) ELSE s2]

\* parseInt(v): String(v), leading blanks skipped, an optional sign, then digits
ParseInt(v) ==
    LET sg == ScanSign(TrimLeft(ToChars(v)))
        ni == DigitPrefixLen(sg[2])
    IN  IF ni = 0 THEN NaN
        ELSE Num(sg[1] * DigitsValue(SubSeq(sg[2], 1, ni)) * Scale)

\* parseFloat(v): String(v), leading blanks skipped, the longest decimal literal
ParseFloat(v) ==
    LET r == ScanDecimal(TrimLeft(ToChars(v)))
    IN  IF r.ok THEN Num(r.n) ELSE NaN

\* ToNumber(v), the conversion isNaN applies to its argument
ToNumber(v) ==
    CASE v.t = "number" -> v
      [] v.t = "NaN" -> NaN
      [] v.t = "undefined" -> NaN
      [] v.t = "null" -> Num(0)
      [] v.t = "string" ->
            LET t == TrimRight(TrimLeft(v.s))
                r == ScanDecimal(t)
            IN  IF t = <<>> THEN Num(0)
                ELSE IF r.ok /\ r.rest = <<>> THEN Num(r.n)
                ELSE NaN
      [] OTHER -> NaN

\* isNaN(v)
IsNaN(v) == ToNumber(v).t = "NaN"

\* Number.prototype.toFixed(2): two decimals, rounded to the nearest hundredth
\* (the inputs of the model have no third decimal of 5, where binary floating
\* point decides the direction)
ToFixed2(v) ==
    LET a == Abs(v.n)
        h == (a + 5) \div 10
        sign == IF v.n < 0 THEN <<"-">> ELSE <<>>
    IN  IF v.t = "NaN" THEN Str(<<"N", "a", "N">>)
        ELSE Str(sign \o NatToChars(h \div 100)
                 \o <<".", Digits[((h \div 10) % 10) + 1], Digits[(h % 10) + 1]>>)

\* Math.max(a, b) and Math.min(a, b): NaN when either argument is NaN
MathMax(a, b) == IF a.t = "NaN" \/ b.t = "NaN" THEN NaN ELSE IF a.n >= b.n THEN a ELSE b

MathMin(a, b) == IF a.t = "NaN" \/ b.t = "NaN" THEN NaN ELSE IF a.n <= b.n THEN a ELSE b

----------------------------------------------------------------------------
(* The sales_data table and the storage collaborator *)

ColInvoiceNo == <<"i", "n", "v", "o", "i", "c", "e", "N", "o">>
ColStockCode == <<"s", "t", "o", "c", "k", "C", "o", "d", "e">>
ColDescription == <<"d", "e", "s", "c", "r", "i", "p", "t", "i", "o", "n">>
ColQuantity == <<"q", "u", "a", "n", "t", "i", "t", "y">>
ColInvoiceDate == <<"i", "n", "v", "o", "i", "c", "e", "D", "a", "t", "e">>
ColUnitPrice == <<"u", "n", "i", "t", "P", "r", "i", "c", "e">>
ColCustomerId == <<"c", "u", "s", "t", "o", "m", "e", "r", "I", "d">>
ColCountry == <<"c", "o", "u", "n", "t", "r", "y">>

\* the columns of salesData, by property name
Fields ==
    {"invoiceNo", "stockCode", "description", "quantity", "invoiceDate", "unitPrice",
     "customerId", "country"}

\* salesData[name]: the column a property name denotes, "" when the table object
\* has no such column
salesData(name) ==
    CASE name = ColInvoiceNo -> "invoiceNo"
      [] name = ColStockCode -> "stockCode"
      [] name = ColDescription -> "description"
      [] name = ColQuantity -> "quantity"
      [] name = ColInvoiceDate -> "invoiceDate"
      [] name = ColUnitPrice -> "unitPrice"
      [] name = ColCustomerId -> "customerId"
      [] name = ColCountry -> "country"
      [] OTHER -> ""

\* columns declared .notNull()
NotNullFields == Fields \ {"description", "customerId"}

\* integer(...) columns
IntegerFields == {"quantity", "customerId"}

\* new Date(v) for the date-only strings YYYY-MM-DD; the value is a day ordinal
\* that orders dates as the calendar does.  Any other text is an Invalid Date.
NewDate(v) ==
    LET s == v.s
        shape == /\ v.t = "string"
                 /\ Len(s) = 10
                 /\ s[5] = "-" /\ s[8] = "-"
                 /\ \A i \in {1, 2, 3, 4, 6, 7, 9, 10} : IsDigit(s[i])
        y == DigitsValue(SubSeq(s, 1, 4))
        m == DigitsValue(SubSeq(s, 6, 7))
        d == DigitsValue(SubSeq(s, 9, 10))
    IN  IF shape /\ m \in 1..12 /\ d \in 1..31
        THEN DateV((y * 12 + (m - 1)) * 31 + (d - 1))
        ELSE InvalidDate

\* the outcome of a storage call that did not raise
NoError == [code |-> "", message |-> ""]

\* the driver cannot encode an Invalid Date (Date.prototype.toISOString throws)
EncodeError == [code |-> "", message |-> "Invalid time value"]

\* the collaborator is unreachable or fails for reasons of its own
StorageDown == [code |-> "08006", message |-> "connection failure"]

\* a value the column type rejects (NaN for an integer column)
TypeError == [code |-> "22P02", message |-> "invalid input syntax for type integer"]

\* NULL in a NOT NULL column
NotNullViolation == [code |-> "23502", message |-> "null value violates not-null constraint"]

\* a uniqueness constraint rejects the row
UniqueViolation == [code |-> "23505", message |-> "duplicate key value violates unique constraint"]

\* how the engine stores a value sent for column f, as the driver reads it back:
\* varchar columns hold text, numeric(10, 2) is returned as a two-decimal string
Stored(f, v) ==
    IF v.t = "null" THEN Null
    ELSE CASE f \in {"invoiceNo", "stockCode", "description", "country"} -> Str(ToChars(v))
           [] f = "unitPrice" ->
                ToFixed2(ParseFloat(v))
           [] OTHER -> v

\* the values of `vals` (a function from some columns to JavaScript values) can
\* be serialised by the driver
Encodable(vals) == \A f \in DOMAIN vals : vals[f].t # "invalid-date"

\* the error the engine raises for the values, NoError when it accepts them
ColumnError(vals) ==
    IF \E f \in DOMAIN vals : f \in IntegerFields /\ vals[f].t \notin {"number", "null"}
    THEN TypeError
    ELSE IF \E f \in DOMAIN vals : f \in NotNullFields /\ vals[f].t = "null"
    THEN NotNullViolation
    ELSE NoError

KeyOf(row) == [invoiceNo |-> row.invoiceNo.s, stockCode |-> row.stockCode.s]

\* and(eq(salesData.invoiceNo, invoiceNo), eq(salesData.stockCode, stockCode))
KeyMatches(row, key) == row.invoiceNo.s = key.invoiceNo /\ row.stockCode.s = key.stockCode

HasKey(tbl, key) == \E i \in 1..Len(tbl) : KeyMatches(tbl[i], key)

RECURSIVE SelectSeq2(_, _)
\* the rows of tbl whose index is in idx, in table order
SelectSeq2(tbl, idx) ==
    IF tbl = <<>> THEN <<>>
    ELSE SelectSeq2(SubSeq(tbl, 1, Len(tbl) - 1), idx)
         \o (IF Len(tbl) \in idx THEN <<tbl[Len(tbl)]>> ELSE <<>>)

\* Insert into a table that always has a uniqueness constraint on the key
InsertAlwaysUnique(tbl, unique, rec, fault) ==
    LET row == [f \in Fields |-> Stored(f, rec[f])]
        none == [err |-> NoError, sent |-> 1, rows |-> <<>>, table |-> tbl]
    IN  IF ~Encodable(rec) THEN [none EXCEPT !.err = EncodeError, !.sent = 0]
        ELSE IF fault THEN [none EXCEPT !.err = StorageDown]
        ELSE IF ColumnError(rec) # NoError THEN [none EXCEPT !.err = ColumnError(rec)]
        ELSE IF HasKey(tbl, KeyOf(row)) THEN [none EXCEPT !.err = UniqueViolation]
        ELSE [none EXCEPT !.rows = <<row>>, !.table = Append(tbl, row)]

\* Insert keeping the row it reports a uniqueness violation for
InsertKeepingDuplicate(tbl, unique, rec, fault) ==
    LET row == [f \in Fields |-> Stored(f, rec[f])]
        none == [err |-> NoError, sent |-> 1, rows |-> <<>>, table |-> tbl]
    IN  IF ~Encodable(rec) THEN [none EXCEPT !.err = EncodeError, !.sent = 0]
        ELSE IF fault THEN [none EXCEPT !.err = StorageDown]
        ELSE IF ColumnError(rec) # NoError THEN [none EXCEPT !.err = ColumnError(rec)]
        ELSE IF unique /\ HasKey(tbl, KeyOf(row))
        THEN [none EXCEPT !.err = UniqueViolation, !.table = Append(tbl, row)]
        ELSE [none EXCEPT !.rows = <<row>>, !.table = Append(tbl, row)]

\* db.insert(salesData).values(rec).returning(): [err, sent, rows, table]
Insert(tbl, unique, rec, fault) ==
    LET row == [f \in Fields |-> Stored(f, rec[f])]
        none == [err |-> NoError, sent |-> 1, rows |-> <<>>, table |-> tbl]
    IN  IF ~Encodable(rec) THEN [none EXCEPT !.err = EncodeError, !.sent = 0]
        ELSE IF fault THEN [none EXCEPT !.err = StorageDown]
        ELSE IF ColumnError(rec) # NoError THEN [none EXCEPT !.err = ColumnError(rec)]
        ELSE IF unique /\ HasKey(tbl, KeyOf(row)) THEN [none EXCEPT !.err = UniqueViolation]
        ELSE [none EXCEPT !.rows = <<row>>, !.table = Append(tbl, row)]

\* UpdateWhere setting the values in every row once some row has the key
UpdateWhereAll(tbl, upd, key, fault) ==
    LET hit == {i \in 1..Len(tbl) : KeyMatches(tbl[i], key)}
        new(row) == [f \in Fields |-> IF f \in DOMAIN upd THEN Stored(f, upd[f]) ELSE row[f]]
        tbl2 == [i \in 1..Len(tbl) |-> IF hit # {} THEN new(tbl[i]) ELSE tbl[i]]
        none == [err |-> NoError, sent |-> 1, rows |-> <<>>, table |-> tbl]
    IN  IF ~Encodable(upd) THEN [none EXCEPT !.err = EncodeError, !.sent = 0]
        ELSE IF fault THEN [none EXCEPT !.err = StorageDown]
        ELSE IF ColumnError(upd) = TypeError THEN [none EXCEPT !.err = TypeError]
        ELSE IF hit # {} /\ ColumnError(upd) # NoError
        THEN [none EXCEPT !.err = ColumnError(upd)]
        ELSE [none EXCEPT !.rows = SelectSeq2(tbl2, hit), !.table = tbl2]

\* db.update(salesData).set(upd).where(key).returning(): [err, sent, rows, table]
UpdateWhere(tbl, upd, key, fault) ==
    LET hit == {i \in 1..Len(tbl) : KeyMatches(tbl[i], key)}
        new(row) == [f \in Fields |-> IF f \in DOMAIN upd THEN Stored(f, upd[f]) ELSE row[f]]
        tbl2 == [i \in 1..Len(tbl) |-> IF i \in hit THEN new(tbl[i]) ELSE tbl[i]]
        none == [err |-> NoError, sent |-> 1, rows |-> <<>>, table |-> tbl]
    IN  IF ~Encodable(upd) THEN [none EXCEPT !.err = EncodeError, !.sent = 0]
        ELSE IF fault THEN [none EXCEPT !.err = StorageDown]
        ELSE IF ColumnError(upd) = TypeError THEN [none EXCEPT !.err = TypeError]
        ELSE IF hit # {} /\ ColumnError(upd) # NoError
        THEN [none EXCEPT !.err = ColumnError(upd)]
        ELSE [none EXCEPT !.rows = SelectSeq2(tbl2, hit), !.table = tbl2]

\* DeleteWhere removing only the first row that matches
DeleteWhereFirst(tbl, key, fault) ==
    LET hit == {i \in 1..Len(tbl) : KeyMatches(tbl[i], key)}
        first == IF hit = {} THEN {} ELSE {CHOOSE i \in hit : \A j \in hit : i <= j}
        none == [err |-> NoError, sent |-> 1, rows |-> <<>>, table |-> tbl]
    IN  IF fault THEN [none EXCEPT !.err = StorageDown]
        ELSE [none EXCEPT !.rows = SelectSeq2(tbl, first),
                          !.table = SelectSeq2(tbl, (1..Len(tbl)) \ first)]

\* db.delete(salesData).where(key).returning(): [err, sent, rows, table]
DeleteWhere(tbl, key, fault) ==
    LET hit == {i \in 1..Len(tbl) : KeyMatches(tbl[i], key)}
        none == [err |-> NoError, sent |-> 1, rows |-> <<>>, table |-> tbl]
    IN  IF fault THEN [none EXCEPT !.err = StorageDown]
        ELSE [none EXCEPT !.rows = SelectSeq2(tbl, hit),
                          !.table = SelectSeq2(tbl, (1..Len(tbl)) \ hit)]

----------------------------------------------------------------------------
(* Reads: predicates, ordering, paging, aggregates *)

\* the characters of the model's strings, in code point order
Alphabet ==
    <<" ", "-", ".", "0", "1", "2", "3", "4", "5", "6", "7", "8", "9",
      "A", "B", "C", "D", "E", "F", "G", "H", "I", "J", "K", "L", "M",
      "N", "O", "P", "Q", "R", "S", "T", "U", "V", "W", "X", "Y", "Z",
      "a", "b", "c", "d", "e", "f", "g", "h", "i", "j", "k", "l", "m",
      "n", "o", "p", "q", "r", "s", "t", "u", "v", "w", "x", "y", "z">>

CharRank(c) == CHOOSE i \in 1..Len(Alphabet) : Alphabet[i] = c

RECURSIVE LexLess(_, _)
LexLess(a, b) ==
    IF b = <<>> THEN FALSE
    ELSE IF a = <<>> THEN TRUE
    ELSE IF a[1] = b[1] THEN LexLess(Tail(a), Tail(b))
    ELSE CharRank(a[1]) < CharRank(b[1])

\* the number a non-null value of a numeric or timestamp column stands for
Magnitude(f, v) == IF f = "unitPrice" THEN ParseFloat(v).n ELSE v.n

\* a < b for two non-null values of column f
ColLess(f, a, b) ==
    IF f \in {"invoiceNo", "stockCode", "description", "country"}
    THEN LexLess(ToChars(a), ToChars(b))
    ELSE Magnitude(f, a) < Magnitude(f, b)

\* one comparison of a WHERE clause: eq, gte or lte of a column and a value;
\* a NULL column value satisfies none
CondHolds(row, c) ==
    LET a == row[c.f]
    IN  /\ a.t # "null"
        /\ CASE c.op = "eq" -> ~ColLess(c.f, a, c.v) /\ ~ColLess(c.f, c.v, a)
             [] c.op = "gte" -> ~ColLess(c.f, a, c.v)
             [] c.op = "lte" -> ~ColLess(c.f, c.v, a)

\* conditions.length > 0 ? and(...conditions) : undefined
Where(row, conds) == \A i \in 1..Len(conds) : CondHolds(row, conds[i])

Matching(tbl, conds) == SelectSeq2(tbl, {i \in 1..Len(tbl) : Where(tbl[i], conds)})

\* the error a read with these conditions raises, NoError when it is executed
ReadError(conds, fault) ==
    IF \E i \in 1..Len(conds) : conds[i].v.t = "invalid-date" THEN EncodeError
    ELSE IF fault THEN StorageDown
    ELSE IF \E i \in 1..Len(conds) : conds[i].v.t = "NaN" THEN TypeError
    ELSE NoError

\* row a sorts strictly before row b under ORDER BY f dir (NULL sorts as the
\* largest value)
SortsBefore(f, dir, a, b) ==
    LET x == a[f]
        y == b[f]
        lt == IF x.t = "null" THEN FALSE
              ELSE IF y.t = "null" THEN TRUE
              ELSE ColLess(f, x, y)
        gt == IF y.t = "null" THEN FALSE
              ELSE IF x.t = "null" THEN TRUE
              ELSE ColLess(f, y, x)
    IN  IF dir = "asc" THEN lt ELSE gt

Orderings(n) == {p \in [1..n -> 1..n] : \A i, j \in 1..n : i # j => p[i] # p[j]}

\* every order of the rows ORDER BY f dir allows (rows that tie come in any order)
OrderBy(rows, f, dir) ==
    LET n == Len(rows)
        ok(p) == \A i \in 1..(n - 1) : ~SortsBefore(f, dir, rows[p[i + 1]], rows[p[i]])
    IN  {[i \in 1..n |-> rows[p[i]]] : p \in {q \in Orderings(n) : ok(q)}}

\* .limit(limitNum).offset(offset): the query builder leaves out a limit that is
\* not a number >= 0 and an offset that is falsy
LimitOffset(rows, limitNum, offset) ==
    LET off == IF Truthy(offset) THEN offset.n \div Scale ELSE 0
        rest == IF off >= Len(rows) THEN <<>> ELSE SubSeq(rows, off + 1, Len(rows))
    IN  IF limitNum.t = "number" /\ limitNum.n >= 0 /\ limitNum.n \div Scale < Len(rest)
        THEN SubSeq(rest, 1, limitNum.n \div Scale)
        ELSE rest

RECURSIVE SumSeq(_)
SumSeq(ns) == IF ns = <<>> THEN 0 ELSE ns[1] + SumSeq(Tail(ns))

\* the values of an expression over the rows, by the expression's name
TermValues(rows, term) ==
    [i \in 1..Len(rows) |->
        CASE term = "quantity * unit_price" ->
                (rows[i].quantity.n * ParseFloat(rows[i].unitPrice).n) \div Scale
          [] term = "quantity" -> rows[i].quantity.n
          [] term = "unit_price" -> ParseFloat(rows[i].unitPrice).n]

\* the sum of the expression over the rows, in thousandths
SumOver(rows, term) == SumSeq(TermValues(rows, term))

\* integer quotient rounded toward zero
Quot(a, b) == IF a < 0 THEN -((-a) \div b) ELSE a \div b

\* SUM(...) as the driver returns it: NULL over no rows, else a decimal string
SqlSum(rows, term) == IF rows = <<>> THEN Null ELSE Str(NumToChars(SumOver(rows, term)))

\* AVG(...) as the driver returns it, to the resolution of the model
SqlAvg(rows, term) ==
    IF rows = <<>> THEN Null ELSE Str(NumToChars(Quot(SumOver(rows, term), Len(rows))))

\* count()
SqlCount(rows) == Whole(Len(rows))

\* OrZero without the fallback: the aggregate as the driver returns it
OrZeroAbsent(x) == x
\* x || 0
OrZero(x) == IF Truthy(x) THEN x ELSE Num(0)

\* Math.ceil(a / b) of two numbers; NaN when either is NaN or for 0 / 0
CeilDiv(a, b) ==
    IF a.t # "number" \/ b.t # "number" \/ b.n = 0 THEN NaN
    ELSE Whole(-((-a.n) \div b.n))

----------------------------------------------------------------------------
(* Requests and responses *)

\* the most rows the table holds in the model
MaxRows == 2

NoKey == [invoiceNo |-> <<>>, stockCode |-> <<>>]

\* req.body with no property set
NoBody == [f \in Fields |-> Undef]

QueryParams ==
    {"page", "limit", "country", "customerId", "startDate", "endDate", "sortBy", "sortOrder"}

\* req.query with no parameter given
NoQuery == [f \in QueryParams |-> Undef]

NoSummary ==
    [totalSales |-> Undef, totalQuantity |-> Undef, totalOrders |-> Undef,
     averageOrderValue |-> Undef]

NoPagination == [page |-> Undef, limit |-> Undef, total |-> Undef, totalPages |-> Undef]

\* The request handled most recently and its answer (status 0 until it is
\* answered): the request (op, key, body, query), the response
\* (status and the envelope: success, message, error, data, summary, pagination)
\* and what happened at the storage collaborator (sent: the statements sent to
\* it, thrown: the error a storage call raised, NoError when none did).
Blank ==
    [op |-> "none", key |-> NoKey, body |-> NoBody, query |-> NoQuery,
     status |-> 0, success |-> FALSE, message |-> "", error |-> "",
     data |-> <<>>, summary |-> NoSummary, pagination |-> NoPagination,
     sent |-> 0, thrown |-> NoError]

\* the request after a storage call: what was sent, what was raised
After(req, sent, err) == [req EXCEPT !.sent = req.sent + sent, !.thrown = err]

\* res.status(status).json({success: false, message})
Reject(req, status, message) == [req EXCEPT !.status = status, !.message = message]

\* the catch block: res.status(500).json({success: false, message, error: error.message})
ServerError(req, message) ==
    [req EXCEPT !.status = 500, !.message = message, !.error = req.thrown.message]

\* res.status(status).json({success: true, message, data})
Succeed(req, status, message, data) ==
    [req EXCEPT !.status = status, !.success = TRUE, !.message = message, !.data = data]

\* no List request in flight
ListIdle ==
    [pc |-> "idle", query |-> NoQuery, records |-> <<>>, gotRecords |-> FALSE,
     total |-> Undef, gotTotal |-> FALSE]

\* The table as migrated is empty.  The migration declares no uniqueness
\* constraint on (invoice_no, stock_code); uniqueIdx tells whether the database
\* the service runs against has been given one separately.
Init ==
    /\ table = <<>>
    /\ uniqueIdx \in BOOLEAN
    /\ last = Blank
    /\ list = ListIdle

----------------------------------------------------------------------------
(* POST / *)

\* !invoiceNo || !stockCode || !quantity || !invoiceDate || !unitPrice || !country
MissingRequired(body) ==
    \/ ~Truthy(body.invoiceNo)
    \/ ~Truthy(body.stockCode)
    \/ ~Truthy(body.quantity)
    \/ ~Truthy(body.invoiceDate)
    \/ ~Truthy(body.unitPrice)
    \/ ~Truthy(body.country)

\* BadNumbers without the test of unitPrice
BadNumbersQuantityOnly(body) == IsNaN(body.quantity)

\* isNaN(quantity) || isNaN(parseFloat(unitPrice))
BadNumbers(body) == IsNaN(body.quantity) \/ IsNaN(ParseFloat(body.unitPrice))

newRecord(body) ==
    [invoiceNo |-> Str(ToChars(body.invoiceNo)),
     stockCode |-> Str(ToChars(body.stockCode)),
     description |-> IF Truthy(body.description) THEN body.description ELSE Null,
     quantity |-> ParseInt(body.quantity),
     invoiceDate |-> NewDate(body.invoiceDate),
     unitPrice |-> ToFixed2(ParseFloat(body.unitPrice)),
     customerId |-> IF Truthy(body.customerId) THEN ParseInt(body.customerId) ELSE Null,
     country |-> Str(ToChars(body.country))]

\* CreateFailure without the branch for error code 23505
CreateFailureGeneric(req) == ServerError(req, "Failed to create sales record")

\* the catch block of POST /
CreateFailure(req) ==
    IF req.thrown.code = "23505"
    THEN Reject(req, 400, "Sales record with this invoice number and stock code already exists")
    ELSE ServerError(req, "Failed to create sales record")

Create(body) ==
    LET req == [Blank EXCEPT !.op = "create", !.body = body]
    IN  /\ IF MissingRequired(body)
           THEN /\ last' = Reject(req, 400, "Missing required fields: invoiceNo, stockCode, quantity, invoiceDate, unitPrice, country")
                /\ UNCHANGED table
           ELSE IF BadNumbers(body)
           THEN /\ last' = Reject(req, 400, "Quantity must be an integer and unitPrice must be a number")
                /\ UNCHANGED table
           ELSE \E fault \in BOOLEAN :
                \E out \in {Insert(table, uniqueIdx, newRecord(body), fault)} :
                LET req2 == After(req, out.sent, out.err)
                IN  /\ Len(out.table) <= MaxRows
                    /\ table' = out.table
                    /\ IF out.err # NoError
                       THEN last' = CreateFailure(req2)
                       ELSE last' = Succeed(req2, 201, "Sales record created successfully",
                                            <<out.rows[1]>>)
        /\ UNCHANGED <<uniqueIdx, list>>

----------------------------------------------------------------------------
(* PUT /:invoiceNo/:stockCode *)

\* UpdateKeys taking every property of the body, the key's included
UpdateKeysAnyField(body) == {f \in Fields : body[f] # Undef}

\* the columns updateData gets a property for
UpdateKeys(body) ==
    {f \in {"description", "quantity", "invoiceDate", "unitPrice", "customerId", "country"} :
        body[f] # Undef}

updateData(body) ==
    [f \in UpdateKeys(body) |->
        CASE f = "quantity" -> ParseInt(body.quantity)
          [] f = "invoiceDate" -> NewDate(body.invoiceDate)
          [] f = "unitPrice" -> ToFixed2(ParseFloat(body.unitPrice))
          [] f = "customerId" ->
                IF Truthy(body.customerId) THEN ParseInt(body.customerId) ELSE Null
          [] OTHER -> body[f]]

Update(key, body) ==
    LET req == [Blank EXCEPT !.op = "update", !.key = key, !.body = body]
    IN  /\ IF body.quantity # Undef /\ IsNaN(body.quantity)
           THEN /\ last' = Reject(req, 400, "Quantity must be a number")
                /\ UNCHANGED table
           ELSE IF body.unitPrice # Undef /\ IsNaN(ParseFloat(body.unitPrice))
           THEN /\ last' = Reject(req, 400, "Unit price must be a number")
                /\ UNCHANGED table
           ELSE IF DOMAIN updateData(body) = {}
           THEN /\ last' = Reject(req, 400, "No fields provided for update")
                /\ UNCHANGED table
           ELSE \E fault \in BOOLEAN :
                \E out \in {UpdateWhere(table, updateData(body), key, fault)} :
                LET req2 == After(req, out.sent, out.err)
                IN  /\ table' = out.table
                    /\ IF out.err # NoError
                       THEN last' = ServerError(req2, "Failed to update sales record")
                       ELSE IF Len(out.rows) = 0
                       THEN last' = Reject(req2, 404, "Sales record not found")
                       ELSE \E i \in 1..Len(out.rows) :
                                last' = Succeed(req2, 200, "Sales record updated successfully",
                                                <<out.rows[i]>>)
        /\ UNCHANGED <<uniqueIdx, list>>

----------------------------------------------------------------------------
(* DELETE /:invoiceNo/:stockCode and GET /:invoiceNo/:stockCode *)

Delete(key) ==
    LET req == [Blank EXCEPT !.op = "delete", !.key = key]
    IN  /\ \E fault \in BOOLEAN :
                \E out \in {DeleteWhere(table, key, fault)} :
                LET req2 == After(req, out.sent, out.err)
                IN  /\ table' = out.table
                    /\ IF out.err # NoError
                       THEN last' = ServerError(req2, "Failed to delete sales record")
                       ELSE IF Len(out.rows) = 0
                       THEN last' = Reject(req2, 404, "Sales record not found")
                       ELSE \E i \in 1..Len(out.rows) :
                                last' = Succeed(req2, 200, "Sales record deleted successfully",
                                                <<out.rows[i]>>)
        /\ UNCHANGED <<uniqueIdx, list>>

\* db.select().from(salesData).where(key).limit(1): [err, sent, rows].  With no
\* ORDER BY, rows may hold any one of the rows that match.
SelectOne(tbl, key, fault) ==
    LET hit == {i \in 1..Len(tbl) : KeyMatches(tbl[i], key)}
    IN  IF fault THEN {[err |-> StorageDown, sent |-> 1, rows |-> <<>>]}
        ELSE IF hit = {} THEN {[err |-> NoError, sent |-> 1, rows |-> <<>>]}
        ELSE {[err |-> NoError, sent |-> 1, rows |-> <<tbl[i]>>] : i \in hit}

\* GetOne without the test record.length === 0
GetOneUnchecked(key) ==
    LET req == [Blank EXCEPT !.op = "getOne", !.key = key]
    IN  /\ \E fault \in BOOLEAN :
            \E out \in SelectOne(table, key, fault) :
                LET req2 == After(req, out.sent, out.err)
                IN  IF out.err # NoError
                    THEN last' = ServerError(req2, "Failed to fetch sales record")
                    ELSE last' = Succeed(req2, 200, "", out.rows)
        /\ UNCHANGED <<table, uniqueIdx, list>>

GetOne(key) ==
    LET req == [Blank EXCEPT !.op = "getOne", !.key = key]
    IN  /\ \E fault \in BOOLEAN :
            \E out \in SelectOne(table, key, fault) :
                LET req2 == After(req, out.sent, out.err)
                    record == out.rows
                IN  IF out.err # NoError
                    THEN last' = ServerError(req2, "Failed to fetch sales record")
                    ELSE IF Len(record) = 0
                    THEN last' = Reject(req2, 404, "Sales record not found")
                    ELSE last' = Succeed(req2, 200, "", <<record[1]>>)
        /\ UNCHANGED <<table, uniqueIdx, list>>

----------------------------------------------------------------------------
(* GET /analytics/summary and GET /analytics/top-products *)

\* if (param) conditions.push(cond): the condition is added for a truthy parameter
PushIf(conds, param, cond) == IF Truthy(param) THEN Append(conds, cond) ELSE conds

Cond(f, op, v) == [f |-> f, op |-> op, v |-> v]

\* SelectWhere sending the statement a second time when storage fails
SelectWhereRetried(tbl, conds, fault) ==
    LET err == ReadError(conds, fault)
    IN  [err |-> err,
         sent |-> IF err = EncodeError THEN 0 ELSE IF err = NoError THEN 1 ELSE 2,
         rows |-> IF err = NoError THEN Matching(tbl, conds) ELSE <<>>]

\* a read with these conditions: [err, sent, rows]
SelectWhere(tbl, conds, fault) ==
    LET err == ReadError(conds, fault)
    IN  [err |-> err,
         sent |-> IF err = EncodeError THEN 0 ELSE 1,
         rows |-> IF err = NoError THEN Matching(tbl, conds) ELSE <<>>]

SummaryConditions(query) ==
    PushIf(PushIf(PushIf(<<>>,
        query.startDate, Cond("invoiceDate", "gte", NewDate(query.startDate))),
        query.endDate, Cond("invoiceDate", "lte", NewDate(query.endDate))),
        query.country, Cond("country", "eq", query.country))

\* the one row of the aggregate select, as the driver returns it
SummaryRow(rows) ==
    [totalSales |-> SqlSum(rows, "quantity * unit_price"),
     totalQuantity |-> SqlSum(rows, "quantity"),
     totalOrders |-> SqlCount(rows),
     averageOrderValue |-> SqlAvg(rows, "quantity * unit_price")]

Summary(query) ==
    LET req == [Blank EXCEPT !.op = "summary", !.query = query]
    IN  /\ \E fault \in BOOLEAN :
                \E out \in {SelectWhere(table, SummaryConditions(query), fault)} :
                \E summary \in {SummaryRow(out.rows)} :
                LET req2 == After(req, out.sent, out.err)
                IN  IF out.err # NoError
                    THEN last' = ServerError(req2, "Failed to fetch sales analytics")
                    ELSE last' = [Succeed(req2, 200, "", <<>>) EXCEPT !.summary =
                            [totalSales |-> ParseFloat(OrZero(summary.totalSales)),
                             totalQuantity |-> ParseInt(OrZero(summary.totalQuantity)),
                             totalOrders |-> ParseInt(OrZero(summary.totalOrders)),
                             averageOrderValue |->
                                 ParseFloat(OrZero(summary.averageOrderValue))]]
        /\ UNCHANGED <<table, uniqueIdx, list>>

\* const { limit = 10 } = req.query
DefaultTopLimit == 10

MaxTopLimit == 100

\* a destructuring default: it stands in for undefined only
OrDefault(param, default) == IF param = Undef THEN default ELSE param

\* Math.min(100, Math.max(1, parseInt(limit)))
TopLimitNum(query) ==
    MathMin(Whole(MaxTopLimit),
            MathMax(Whole(1), ParseInt(OrDefault(query.limit, Whole(DefaultTopLimit)))))

TopConditions(query) ==
    PushIf(PushIf(<<>>,
        query.startDate, Cond("invoiceDate", "gte", NewDate(query.startDate))),
        query.endDate, Cond("invoiceDate", "lte", NewDate(query.endDate)))

\* GROUP BY stock_code, description: the groups' keys
GroupKeys(rows) ==
    {[stockCode |-> rows[i].stockCode, description |-> rows[i].description] :
        i \in 1..Len(rows)}

GroupRows(rows, g) ==
    SelectSeq2(rows, {i \in 1..Len(rows) :
        rows[i].stockCode = g.stockCode /\ rows[i].description = g.description})

\* one result row of the grouped select, as the driver returns it
GroupResult(rows, g) ==
    [stockCode |-> g.stockCode, description |-> g.description,
     totalQuantity |-> SqlSum(GroupRows(rows, g), "quantity"),
     totalRevenue |-> SqlSum(GroupRows(rows, g), "quantity * unit_price"),
     averagePrice |-> SqlAvg(GroupRows(rows, g), "unit_price")]

\* GroupOrders with the groups in ascending order of their quantity
GroupOrdersAscending(rows) ==
    LET gs == GroupKeys(rows)
        n == Cardinality(gs)
        total(g) == SumOver(GroupRows(rows, g), "quantity")
    IN  {s \in [1..n -> gs] :
            /\ \A i, j \in 1..n : i # j => s[i] # s[j]
            /\ \A i \in 1..(n - 1) : total(s[i]) <= total(s[i + 1])}

\* every order ORDER BY sum(quantity) DESC allows for the groups
GroupOrders(rows) ==
    LET gs == GroupKeys(rows)
        n == Cardinality(gs)
        total(g) == SumOver(GroupRows(rows, g), "quantity")
    IN  {s \in [1..n -> gs] :
            /\ \A i, j \in 1..n : i # j => s[i] # s[j]
            /\ \A i \in 1..(n - 1) : total(s[i]) >= total(s[i + 1])}

\* result.map(item => ({...})): the numbers parsed from the driver's strings
TopItem(item) ==
    [stockCode |-> item.stockCode,
     description |-> item.description,
     totalQuantity |-> ParseInt(item.totalQuantity),
     totalRevenue |-> ParseFloat(item.totalRevenue),
     averagePrice |-> ParseFloat(item.averagePrice)]

TopProducts(query) ==
    LET req == [Blank EXCEPT !.op = "topProducts", !.query = query]
    IN  /\ \E fault \in BOOLEAN :
                \E out \in {SelectWhere(table, TopConditions(query), fault)} :
                LET req2 == After(req, out.sent, out.err)
                IN  IF out.err # NoError
                    THEN last' = ServerError(req2, "Failed to fetch top products")
                    ELSE \E order \in GroupOrders(out.rows) :
                         \E result \in {LimitOffset(
                                    [i \in 1..Len(order) |-> GroupResult(out.rows, order[i])],
                                    TopLimitNum(query), Undef)} :
                                last' = Succeed(req2, 200, "",
                                    [i \in 1..Len(result) |-> TopItem(result[i])])
        /\ UNCHANGED <<table, uniqueIdx, list>>

----------------------------------------------------------------------------
(* GET / *)

\* const { page = 1, limit = 50 } = req.query
DefaultPage == 1

DefaultLimit == 50

MaxLimit == 1000

\* Math.max(1, parseInt(page))
PageNum(query) == MathMax(Whole(1), ParseInt(OrDefault(query.page, Whole(DefaultPage))))

\* Math.min(1000, Math.max(1, parseInt(limit)))
LimitNum(query) ==
    MathMin(Whole(MaxLimit),
            MathMax(Whole(1), ParseInt(OrDefault(query.limit, Whole(DefaultLimit)))))

\* (pageNum - 1) * limitNum, of two whole numbers
Offset(query) ==
    LET p == PageNum(query)
        l == LimitNum(query)
    IN  IF p.t = "NaN" \/ l.t = "NaN" THEN NaN ELSE Num(((p.n - Scale) \div Scale) * l.n)

\* ListConditions without the comparison of customerId
ListConditionsNoCustomer(query) ==
    PushIf(PushIf(PushIf(<<>>,
        query.country, Cond("country", "eq", query.country)),
        query.startDate, Cond("invoiceDate", "gte", NewDate(query.startDate))),
        query.endDate, Cond("invoiceDate", "lte", NewDate(query.endDate)))

ListConditions(query) ==
    PushIf(PushIf(PushIf(PushIf(<<>>,
        query.country, Cond("country", "eq", query.country)),
        query.customerId, Cond("customerId", "eq", ParseInt(query.customerId))),
        query.startDate, Cond("invoiceDate", "gte", NewDate(query.startDate))),
        query.endDate, Cond("invoiceDate", "lte", NewDate(query.endDate)))

\* salesData[sortBy] || salesData.invoiceDate
SortField(query) ==
    LET col == salesData(ToChars(OrDefault(query.sortBy, Str(ColInvoiceDate))))
    IN  IF col # "" THEN col ELSE "invoiceDate"

\* sortOrder === 'asc' ? asc(sortField) : desc(sortField)
SortDirection(query) ==
    IF OrDefault(query.sortOrder, Str(<<"d", "e", "s", "c">>)) = Str(<<"a", "s", "c">>)
    THEN "asc" ELSE "desc"

\* the List request in flight, not answered yet
ListRequest(query) == [Blank EXCEPT !.op = "list", !.query = query]

\* the handler runs up to Promise.all: both reads are now pending
ListStart(query) ==
    /\ list.pc = "idle"
    /\ list' = [ListIdle EXCEPT !.pc = "reading", !.query = query]
    /\ last' = ListRequest(query)
    /\ UNCHANGED <<table, uniqueIdx>>

\* Promise.all rejects with the first read that fails: the catch block answers
ListFailure(out) ==
    /\ last' = ServerError(After(ListRequest(list.query), 2 * out.sent, out.err),
                           "Failed to fetch sales records")
    /\ list' = ListIdle

\* both reads are in: total, totalPages and the response
ListRespond(records, total) ==
    /\ last' = [Succeed(After(ListRequest(list.query), 2, NoError), 200, "", records) EXCEPT
            !.pagination = [page |-> PageNum(list.query),
                            limit |-> LimitNum(list.query),
                            total |-> ParseInt(total),
                            totalPages |-> CeilDiv(total, LimitNum(list.query))]]
    /\ list' = ListIdle

\* the select with where, orderBy, limit and offset is executed
ListReadData ==
    /\ list.pc = "reading"
    /\ ~list.gotRecords
    /\ \E fault \in BOOLEAN :
            \E out \in {SelectWhere(table, ListConditions(list.query), fault)} :
                IF out.err # NoError
                THEN ListFailure(out)
                ELSE \E sorted \in OrderBy(out.rows, SortField(list.query),
                                           SortDirection(list.query)) :
                     \E records \in {LimitOffset(sorted, LimitNum(list.query),
                                                 Offset(list.query))} :
                        IF list.gotTotal
                        THEN ListRespond(records, list.total)
                        ELSE /\ list' = [list EXCEPT !.records = records,
                                                     !.gotRecords = TRUE]
                             /\ UNCHANGED last
    /\ UNCHANGED <<table, uniqueIdx>>

\* the select of count() with the same where is executed
ListReadCount ==
    /\ list.pc = "reading"
    /\ ~list.gotTotal
    /\ \E fault \in BOOLEAN :
            \E out \in {SelectWhere(table, ListConditions(list.query), fault)} :
            \E total \in {SqlCount(out.rows)} :
                IF out.err # NoError
                THEN ListFailure(out)
                ELSE IF list.gotRecords
                THEN ListRespond(list.records, total)
                ELSE /\ list' = [list EXCEPT !.total = total, !.gotTotal = TRUE]
                     /\ UNCHANGED last
    /\ UNCHANGED <<table, uniqueIdx>>

----------------------------------------------------------------------------
(* The requests of the model *)

Key1 == [invoiceNo |-> <<"5", "3", "6", "3", "6", "5">>, stockCode |-> <<"8", "5", "1", "2", "3", "A">>]

Key2 == [invoiceNo |-> <<"5", "3", "6", "3", "6", "6">>, stockCode |-> <<"8", "5", "0", "9", "9", "B">>]

Keys == {Key1, Key2}

\* the record of the API's documentation
BaseBody ==
    [invoiceNo |-> Str(Key1.invoiceNo), stockCode |-> Str(Key1.stockCode),
     description |-> Str(<<"L", "A", "M", "P">>), quantity |-> Whole(6),
     invoiceDate |-> Str(<<"2", "0", "1", "0", "-", "1", "2", "-", "0", "1">>), unitPrice |-> Num(2550),
     customerId |-> Undef, country |-> Str(<<"U", "K">>)]

\* a record with the other key, a customer, another date and country
OtherBody ==
    [invoiceNo |-> Str(Key2.invoiceNo), stockCode |-> Str(Key2.stockCode),
     description |-> Str(<<"M", "U", "G">>), quantity |-> Whole(3),
     invoiceDate |-> Str(<<"2", "0", "1", "0", "-", "1", "2", "-", "0", "3">>), unitPrice |-> Str(<<"1", ".", "0", "0">>),
     customerId |-> Whole(17850), country |-> Str(<<"F", "R">>)]

\* BaseBody with one property replaced
With(body, f, v) == [body EXCEPT ![f] = v]

\* bodies of POST /: the two records, and BaseBody with one property missing,
\* empty, zero, of another type, fractional, padded or not a number
CreateBodies ==
    {BaseBody, OtherBody}
    \cup {With(BaseBody, f, Undef) : f \in NotNullFields \cup {"description"}}
    \cup {With(BaseBody, f, Str(<<>>)) : f \in {"invoiceNo", "description", "country"}}
    \cup {With(BaseBody, "invoiceNo", Whole(536365))}
    \cup {With(BaseBody, "quantity", v) :
            v \in {Whole(0), Num(6500), Str(<<"7", "a", "b", "c">>), Str(<<" ", "6", " ">>),
                   Str(<<"a", "b", "c">>)}}
    \cup {With(BaseBody, "unitPrice", v) :
            v \in {Whole(0), Num(2554), Str(<<"2", ".", "5", "5", "x">>),
                   Str(<<"a", "b", "c">>)}}
    \cup {With(BaseBody, "invoiceDate", Str(<<"a", "b", "c">>))}
    \cup {With(BaseBody, "customerId", Str(<<"a", "b", "c">>))}

\* a body of PUT with the given properties
Only(upd) == [f \in Fields |-> IF f \in DOMAIN upd THEN upd[f] ELSE Undef]

\* bodies of PUT: empty, key properties only, zero numbers with a null description
\* and another invoiceNo, numbers that do not parse, an unparseable date, a null for a NOT NULL column
UpdateBodies ==
    {NoBody,
     Only([invoiceNo |-> Str(Key2.invoiceNo), stockCode |-> Str(Key2.stockCode)]),
     Only([invoiceNo |-> Str(Key2.invoiceNo), quantity |-> Whole(0),
           unitPrice |-> Whole(0), description |-> Null]),
     Only([quantity |-> Str(<<"7", "a", "b", "c">>)]),
     Only([unitPrice |-> Str(<<"a", "b", "c">>)]),
     Only([invoiceDate |-> Str(<<"a", "b", "c">>)]),
     Only([country |-> Null])}

Next ==
    \/ \E body \in CreateBodies : Create(body)
    \/ \E key \in Keys, body \in UpdateBodies : Update(key, body)
    \/ \E key \in Keys : Delete(key)
    \/ \E key \in Keys : GetOne(key)

\* create, update, delete and fetch-one requests, one handler at a time
Spec == Init /\ [][Next]_vars

\* the database as the migration leaves it: no uniqueness constraint
InitMigrated == Init /\ uniqueIdx = FALSE

\* a query string with the given parameters
Query(params) == [f \in QueryParams |-> IF f \in DOMAIN params THEN params[f] ELSE Undef]

Text1 == Str(<<"1">>)
TextAbc == Str(<<"a", "b", "c">>)
Day1 == Str(<<"2", "0", "1", "0", "-", "1", "2", "-", "0", "1">>)
Day2 == Str(<<"2", "0", "1", "0", "-", "1", "2", "-", "0", "2">>)
Day3 == Str(<<"2", "0", "1", "0", "-", "1", "2", "-", "0", "3">>)

\* values of page and limit: in range, zero, negative, above the maxima, a
\* fraction, text and the empty string
PagingTexts ==
    {Text1, Str(<<"2">>), Str(<<"0">>), Str(<<"-", "5">>), Str(<<"1", "0", "1">>),
     Str(<<"1", "0", "0", "1">>), Str(<<"1", ".", "5">>), TextAbc, Str(<<>>)}

\* query strings of GET /
ListQueries ==
    {NoQuery, Query([page |-> Str(<<"2">>), limit |-> Text1])}
    \cup {Query([page |-> v]) : v \in PagingTexts}
    \cup {Query([limit |-> v]) : v \in PagingTexts}
    \cup {Query([country |-> v]) : v \in {BaseBody.country, Str(<<>>)}}
    \cup {Query([customerId |-> v]) : v \in {Str(<<"1", "7", "8", "5", "0">>), TextAbc}}
    \cup {Query([startDate |-> v]) : v \in {Day2, TextAbc}}
    \cup {Query([endDate |-> Day2]), Query([startDate |-> Day2, endDate |-> Day2])}
    \cup {Query([sortBy |-> Str(v), sortOrder |-> Str(<<"a", "s", "c">>)]) :
            v \in {ColQuantity, ColUnitPrice, ColCountry, <<"b", "o", "g", "u", "s">>}}
    \cup {Query([sortBy |-> Str(ColCountry)]), Query([sortOrder |-> Str(<<"A", "S", "C">>)])}

\* query strings of GET /analytics/top-products
TopQueries ==
    {NoQuery}
    \cup {Query([limit |-> v]) : v \in PagingTexts}
    \cup {Query([startDate |-> v]) : v \in {Day2, TextAbc}}
    \cup {Query([startDate |-> Day2, endDate |-> Day2])}

\* query strings of GET /analytics/summary
SummaryQueries ==
    {NoQuery}
    \cup {Query([country |-> v]) : v \in {BaseBody.country, OtherBody.country, Str(<<>>)}}
    \cup {Query([startDate |-> v]) : v \in {Day2, TextAbc}}
    \cup {Query([endDate |-> Day2]), Query([startDate |-> Day2, endDate |-> Day2]),
          Query([startDate |-> Day1, endDate |-> Day3, country |-> OtherBody.country])}

\* writes that run beside the reads: the two records, a change of country and
\* of the numbers
ReadCreateBodies == {BaseBody, OtherBody}

ReadUpdateBodies == {Only([country |-> OtherBody.country])}

AnalyticsUpdateBodies ==
    {Only([quantity |-> Whole(-3), unitPrice |-> Num(1004), description |-> Null])}

\* query strings of the List requests that run beside writes
ConcurrentQueries ==
    {NoQuery, Query([country |-> BaseBody.country]), Query([limit |-> Text1]),
     Query([page |-> Str(<<"2">>), limit |-> Text1])}

NextRead ==
    \/ \E body \in ReadCreateBodies : Create(body)
    \/ \E key \in Keys, body \in ReadUpdateBodies : Update(key, body)
    \/ \E key \in Keys : Delete(key)
    \/ \E query \in ConcurrentQueries : ListStart(query)
    \/ ListReadData
    \/ ListReadCount

\* List requests beside writes: the two reads of a List interleave, in either
\* order, with whole create, update and delete requests
SpecRead == InitMigrated /\ [][NextRead]_vars

\* A top-products request reads the table and writes nothing a List reads, so
\* it is scheduled between List requests.
NextQuery ==
    \/ \E body \in ReadCreateBodies : Create(body)
    \/ \E query \in ListQueries : ListStart(query)
    \/ ListReadData
    \/ ListReadCount
    \/ list.pc = "idle" /\ \E query \in TopQueries : TopProducts(query)

\* List and top-products requests over every query string of the model, on the
\* tables the create requests build
SpecQuery == InitMigrated /\ [][NextQuery]_vars

NextAnalytics ==
    \/ \E body \in ReadCreateBodies : Create(body)
    \/ \E key \in Keys, body \in AnalyticsUpdateBodies : Update(key, body)
    \/ \E key \in Keys : Delete(key)
    \/ \E query \in SummaryQueries : Summary(query)
    \/ \E query \in TopQueries : TopProducts(query)

\* summary and top-products requests beside writes
SpecAnalytics == InitMigrated /\ [][NextAnalytics]_vars

\* values of quantity and unitPrice in a body: zero, a fraction, null, and text
\* that is empty, partly numeric and not numeric
NumericValues ==
    {Whole(0), Num(6500), Null, Str(<<>>), Str(<<"7", "a", "b", "c">>), TextAbc}

NumericFields == {"quantity", "unitPrice"}

NextValidation ==
    \/ \E f \in NumericFields, v \in NumericValues : Create(With(BaseBody, f, v))
    \/ \E f \in NumericFields, v \in NumericValues : Update(Key1, Only([g \in {f} |-> v]))

\* create and update requests that differ in the value of one numeric field
SpecValidation == InitMigrated /\ [][NextValidation]_vars

\* bodies of POST / beside every other route: the two records and one that
\* fails validation
ServiceCreateBodies == {BaseBody, OtherBody, With(BaseBody, "quantity", TextAbc)}

\* bodies of PUT beside every other route: a change of country, and no field
ServiceUpdateBodies == {Only([country |-> OtherBody.country]), NoBody}

\* query strings beside every other route: none, and a date that does not parse
ServiceQueries == {NoQuery, Query([startDate |-> TextAbc])}

NextService ==
    \/ \E body \in ServiceCreateBodies : Create(body)
    \/ \E key \in Keys, body \in ServiceUpdateBodies : Update(key, body)
    \/ \E key \in Keys : Delete(key)
    \/ \E key \in Keys : GetOne(key)
    \/ \E query \in ServiceQueries : Summary(query)
    \/ \E query \in ServiceQueries : TopProducts(query)
    \/ \E query \in ServiceQueries : ListStart(query)
    \/ ListReadData
    \/ ListReadCount

\* every route of the router, the other requests running between the two reads
\* of a List
SpecService == Init /\ [][NextService]_vars

----------------------------------------------------------------------------
(* Properties *)

\* this step answers a request of the given operation
Answered(op) == last' # last /\ last'.op = op /\ last'.status # 0

RowsWithKey(tbl, key) == {tbl[i] : i \in {j \in 1..Len(tbl) : KeyMatches(tbl[j], key)}}

\* the key a body names
KeyOfBody(body) ==
    [invoiceNo |-> ToChars(body.invoiceNo), stockCode |-> ToChars(body.stockCode)]

\* a property that is missing or empty
Absent(v) == v.t \in {"undefined", "null"} \/ v = Str(<<>>)

\* C2: a Delete of a key that at least one row has answers 200 with one of those
\* rows and leaves no row with the key; a Delete of a key no row has answers 404
\* and leaves the table as it is; and a key no row has gets a row again only by
\* a Create that answers 201.  So a second Delete with no Create between answers 404.
C2_DeleteTwice ==
    [][\A key \in Keys :
        /\ (Answered("delete") /\ last'.key = key /\ last'.thrown = NoError) =>
              IF HasKey(table, key)
              THEN /\ last'.status = 200
                   /\ last'.success
                   /\ Len(last'.data) = 1
                   /\ last'.data[1] \in RowsWithKey(table, key)
                   /\ ~HasKey(table', key)
              ELSE /\ last'.status = 404
                   /\ ~last'.success
                   /\ table' = table
        /\ (~HasKey(table, key) /\ HasKey(table', key)) =>
              (Answered("create") /\ last'.status = 201)]_vars

\* a Delete has answered 200 with a row of its key, no row with the key is left
\* and a row with the other key is
C2_Witness ==
    /\ last.op = "delete"
    /\ last.status = 200
    /\ Len(last.data) = 1
    /\ KeyMatches(last.data[1], last.key)
    /\ ~HasKey(table, last.key)
    /\ table # <<>>

\* the row a body asks for: the values as submitted, unitPrice in its two-decimal
\* form, customerId and description null when not supplied
Submitted(body) ==
    [invoiceNo |-> Str(ToChars(body.invoiceNo)),
     stockCode |-> Str(ToChars(body.stockCode)),
     description |-> IF Absent(body.description) THEN Null ELSE body.description,
     quantity |-> ToNumber(body.quantity),
     invoiceDate |-> NewDate(body.invoiceDate),
     unitPrice |-> ToFixed2(ParseFloat(body.unitPrice)),
     customerId |-> IF body.customerId = Undef THEN Null ELSE ToNumber(body.customerId),
     country |-> Str(ToChars(body.country))]

\* C3: a Get-one that directly follows a Create answered 201, for the key of the
\* created record, answers 200 with the values that were submitted.
C3_CreateThenGet ==
    [][(/\ last.op = "create"
        /\ last.status = 201
        /\ Answered("getOne")
        /\ last'.key = KeyOfBody(last.body)
        /\ last'.thrown = NoError) =>
            (/\ last'.status = 200
             /\ Len(last'.data) = 1
             /\ last'.data[1] = Submitted(last.body))]_vars

\* C4: a Get-one for a key no row has answers 404 with success false unless the
\* storage call raised, and a Get-one answers 500 only when the storage call raised.
C4_GetOneNotFound ==
    last.op = "getOne" =>
        /\ (~HasKey(table, last.key) /\ last.thrown = NoError) =>
                (last.status = 404 /\ ~last.success)
        /\ last.status = 500 => last.thrown # NoError
        /\ last.status \in {200, 404, 500}

\* a Get-one has answered 404 for a key no row has, while the table holds a row
C4_Witness ==
    /\ last.op = "getOne"
    /\ last.status = 404
    /\ ~HasKey(table, last.key)
    /\ table # <<>>

\* the properties a PUT can update
Updatable == {"description", "quantity", "invoiceDate", "unitPrice", "customerId", "country"}

\* C5: an Update whose body has none of the updatable properties answers 400,
\* sends nothing to storage and leaves the table as it is.
C5_EmptyUpdate ==
    [][(Answered("update") /\ \A f \in Updatable : last'.body[f] = Undef) =>
            (last'.status = 400 /\ last'.sent = 0 /\ table' = table)]_vars

\* an Update with no updatable property has been answered 400 for a key a row has
C5_Witness ==
    /\ last.op = "update"
    /\ \A f \in Updatable : last.body[f] = Undef
    /\ last.body.invoiceNo # Undef
    /\ last.status = 400
    /\ HasKey(table, last.key)

C10_CreateStorageFailure ==
    [][(Answered("create") /\ last'.thrown # NoError) =>
            /\ table' = table
            /\ IF last'.thrown = UniqueViolation
               THEN /\ last'.status = 400
                    /\ last'.message = "Sales record with this invoice number and stock code already exists"
                    /\ last'.error = ""
               ELSE /\ last'.status = 500
                    /\ last'.error = last'.thrown.message
                    /\ last'.error # ""]_vars

\* the insert of a Create has raised a uniqueness violation
C10_Witness ==
    /\ last.op = "create"
    /\ last.thrown = UniqueViolation
    /\ last.status = 400
    /\ HasKey(table, KeyOfBody(last.body))

\* the rows of tbl a Summary request with this query string is about: those on or
\* after startDate, on or before endDate and of the country, for the parameters
\* that are given
SummaryMatched(tbl, query) ==
    SelectSeq2(tbl, {i \in 1..Len(tbl) :
        /\ Truthy(query.startDate) => tbl[i].invoiceDate.n >= NewDate(query.startDate).n
        /\ Truthy(query.endDate) => tbl[i].invoiceDate.n <= NewDate(query.endDate).n
        /\ Truthy(query.country) => tbl[i].country = query.country})

UnparseableDate(v) == Truthy(v) /\ NewDate(v) = InvalidDate

\* the aggregates of a Summary response are those of the rows: four numbers, the
\* sum of quantity * unitPrice, the sum of quantity, the count, and zeros over
\* no rows
SummaryOf(r, rows) ==
    /\ r.status = 200 /\ r.success
    /\ \A a \in DOMAIN r.summary : IsNum(r.summary[a])
    /\ r.summary.totalSales = Num(SumOver(rows, "quantity * unit_price"))
    /\ r.summary.totalQuantity = Num(SumOver(rows, "quantity"))
    /\ r.summary.totalOrders = Whole(Len(rows))
    /\ rows = <<>> => r.summary.averageOrderValue = Num(0)

C1_ListAgrees ==
    last.op = "list" /\ last.status = 200 =>
        LET p == last.pagination
        IN  /\ IsInteger(p.total) /\ IsInteger(p.limit) /\ IsInteger(p.totalPages)
            /\ Len(last.data) * Scale <= p.total.n
            /\ (p.totalPages.n \div Scale) * p.limit.n >= p.total.n
            /\ ((p.totalPages.n \div Scale) - 1) * p.limit.n < p.total.n

\* the sortable fields the interface documents
SortAllowList == {ColInvoiceDate, ColUnitPrice, ColQuantity}

\* the column a List request is to be ordered by: the allow-listed field named
\* by sortBy, else invoiceDate
SortKeyOf(query) ==
    IF query.sortBy.t = "string" /\ query.sortBy.s \in SortAllowList
    THEN salesData(query.sortBy.s) ELSE "invoiceDate"

SortOrderOf(query) == IF query.sortOrder = Str(<<"a", "s", "c">>) THEN "asc" ELSE "desc"

\* C7: a List request whose sortBy is not one of invoiceDate, unitPrice, quantity
\* is answered without an error of its own and with its rows ordered by
\* invoiceDate: no field outside the allow-list is the ordering key; the
\* direction is ascending for sortOrder "asc" exactly, else descending.
C7_SortAllowList ==
    last.op = "list" /\ last.status # 0 =>
        /\ last.thrown = NoError => last.status = 200
        /\ last.status = 200 =>
                \A i \in 1..(Len(last.data) - 1) :
                    ~SortsBefore(SortKeyOf(last.query), SortOrderOf(last.query),
                                 last.data[i + 1], last.data[i])

\* v is a whole number from lo to hi
WholeIn(v, lo, hi) == IsInteger(v) /\ lo * Scale <= v.n /\ v.n <= hi * Scale

\* C8: for every page and limit (absent, numeric, zero, negative, text) the page
\* of an answered List is a whole number >= 1 (1 when absent), its page size a whole number
\* in 1..1000 (50 when absent), its offset (page - 1) * pageSize, and the limit
\* of Top-products a whole number in 1..100 (10 when absent).
C8_PagingClamped ==
    /\ last.op = "list" /\ last.status = 200 =>
        /\ IsInteger(PageNum(last.query)) /\ PageNum(last.query).n >= Scale
        /\ last.query.page = Undef => PageNum(last.query) = Whole(1)
        /\ WholeIn(LimitNum(last.query), 1, 1000)
        /\ last.query.limit = Undef => LimitNum(last.query) = Whole(50)
        /\ IsInteger(Offset(last.query))
        /\ Offset(last.query).n =
                ((PageNum(last.query).n \div Scale) - 1) * LimitNum(last.query).n
        /\ last.pagination.page = PageNum(last.query)
        /\ last.pagination.limit = LimitNum(last.query)
        /\ Len(last.data) * Scale <= LimitNum(last.query).n
    /\ last.op = "topProducts" /\ last.status = 200 =>
        /\ WholeIn(TopLimitNum(last.query), 1, 100)
        /\ last.query.limit = Undef => TopLimitNum(last.query) = Whole(10)
        /\ Len(last.data) * Scale <= TopLimitNum(last.query).n

\* an answered Update (200) has set, in the rows of its key, the updatable
\* properties its body carries and nothing else, and has left the other rows
UpdateFrame ==
    (Answered("update") /\ last'.status = 200) =>
        /\ HasKey(table, last'.key)
        /\ Len(table') = Len(table)
        /\ \A i \in 1..Len(table) :
              IF KeyMatches(table[i], last'.key)
              THEN \A f \in Fields :
                      IF f \in Updatable /\ last'.body[f] # Undef
                      THEN table'[i][f] = Stored(f, updateData(last'.body)[f])
                      ELSE table'[i][f] = table[i][f]
              ELSE table'[i] = table[i]
        /\ Len(last'.data) = 1
        /\ last'.data[1] \in RowsWithKey(table', last'.key)

\* C11 as stated: an Update answered 200 changes, in the rows of its key, exactly
\* the updatable fields its body carries, and no other field or row; an Update
\* of a key no row has (with the storage collaborator up) answers 404 and leaves
\* the table as it is.
C11_UpdateAsStated ==
    [][/\ UpdateFrame
       /\ (Answered("update") /\ last'.thrown # StorageDown /\ ~HasKey(table, last'.key)) =>
              (last'.status = 404 /\ table' = table)]_vars

\* C11, amended: the same for an Update answered 200; an Update of a key no row
\* has answers 404 when its statement was sent and raised no error, 400 when the
\* body fails validation or names no updatable field (nothing is sent), and 500
\* when the statement raises; the table is left as it is in each case.
C11_UpdateFrame ==
    [][/\ UpdateFrame
       /\ (Answered("update") /\ ~HasKey(table, last'.key)) =>
              /\ table' = table
              /\ last'.status =
                    IF last'.thrown # NoError THEN 500
                    ELSE IF last'.sent = 0 THEN 400
                    ELSE 404]_vars

\* an Update carrying quantity, unitPrice, description and another invoiceNo has
\* been answered 200 while the table holds a row of another key
C11_Witness ==
    /\ last.op = "update" /\ last.status = 200
    /\ last.body.quantity # Undef /\ last.body.invoiceNo # Undef
    /\ \E i \in 1..Len(table) : ~KeyMatches(table[i], last.key)
    /\ \E i \in 1..Len(table) :
            KeyMatches(table[i], last.key) /\ table[i].quantity = Whole(0)

\* the rows of tbl a Top-products request with this query string is about: those
\* on or after startDate and on or before endDate, for the dates that are given
TopMatched(tbl, query) == SummaryMatched(tbl, [query EXCEPT !.country = Undef])

\* the rows of one product: those with the entry's stockCode and description
ProductRows(rows, e) ==
    SelectSeq2(rows, {i \in 1..Len(rows) :
        rows[i].stockCode = e.stockCode /\ rows[i].description = e.description})

\* the response r is a success listing products of the rows: no product twice,
\* each with its total quantity, total revenue and average unit price, in
\* descending order of total quantity, and no product left out has a larger
\* total quantity than one that is listed
TopOf(r, rows) ==
    /\ r.status = 200 /\ r.success
    /\ \A i \in 1..Len(r.data) :
        LET own == ProductRows(rows, r.data[i])
        IN  /\ own # <<>>
            /\ r.data[i].totalQuantity = Num(SumOver(own, "quantity"))
            /\ r.data[i].totalRevenue = Num(SumOver(own, "quantity * unit_price"))
            /\ r.data[i].averagePrice = Num(Quot(SumOver(own, "unit_price"), Len(own)))
    /\ \A i, j \in 1..Len(r.data) :
        i < j => /\ ProductRows(rows, r.data[i]) # ProductRows(rows, r.data[j])
                 /\ r.data[i].totalQuantity.n >= r.data[j].totalQuantity.n
    /\ \A k \in 1..Len(rows) :
        \/ \E i \in 1..Len(r.data) : ProductRows(rows, r.data[i]) = ProductRows(rows, rows[k])
        \/ \A i \in 1..Len(r.data) :
                SumOver(ProductRows(rows, rows[k]), "quantity") <= r.data[i].totalQuantity.n

\* the number of products among the rows
ProductCount(rows) == Cardinality({ProductRows(rows, rows[k]) : k \in 1..Len(rows)})

C13_SameValidation ==
    [][\A f \in NumericFields :
        (/\ last.op = "create" /\ last.status # 0
         /\ Answered("update")
         /\ last'.body = Only([g \in {f} |-> last.body[f]])
         /\ last.body = With(BaseBody, f, last.body[f])) =>
            ((last'.status = 400) <=> (last.status = 400))]_vars

\* the operations that send one statement
SingleStatementOps == {"create", "update", "delete", "getOne", "summary", "topProducts"}

OneStatement ==
    \A op \in SingleStatementOps :
        Answered(op) =>
            /\ last'.sent <= 1
            /\ list' = list
            /\ (last'.sent = 0) => (last'.status = 400 \/ last'.thrown = EncodeError)
            /\ (last'.thrown # NoError) =>
                    /\ ~last'.success
                    /\ last'.status = IF last'.thrown = UniqueViolation /\ op = "create"
                                      THEN 400 ELSE 500

\* a step answering a List: 200 after two reads that both completed, or 500 as
\* soon as one read raised
ListReads ==
    Answered("list") =>
        /\ last'.status \in {200, 500}
        /\ (last'.status = 200) =>
                /\ last'.sent = 2
                /\ last'.thrown = NoError
                /\ list.gotRecords \/ list.gotTotal
        /\ (last'.status = 500) =>
                /\ last'.thrown # NoError
                /\ last'.sent = IF last'.thrown = EncodeError THEN 0 ELSE 2

Given(v) == v # Undef /\ v # Str(<<>>)

\* the rows of tbl a List with this query string is to select: country equal,
\* customerId equal to the parameter as an integer, invoiceDate from startDate
\* and up to endDate, each only for a parameter that is given
ListMatched(tbl, query) ==
    SelectSeq2(tbl, {i \in 1..Len(tbl) :
        /\ Given(query.country) => tbl[i].country = query.country
        /\ Given(query.customerId) =>
                /\ tbl[i].customerId # Null
                /\ tbl[i].customerId.n = ParseInt(query.customerId).n
        /\ Given(query.startDate) => tbl[i].invoiceDate.n >= NewDate(query.startDate).n
        /\ Given(query.endDate) => tbl[i].invoiceDate.n <= NewDate(query.endDate).n})

\* rows[offset + 1 .. offset + limit], as far as there are rows
Slice(rows, offset, limit) ==
    SubSeq(rows, offset + 1, IF offset + limit < Len(rows) THEN offset + limit ELSE Len(rows))

\* the query string names its page and page size by whole numbers, or not at
\* all, and its sort field is absent, allow-listed or no column
PlainPaging(query) ==
    /\ IsInteger(PageNum(query))
    /\ IsInteger(LimitNum(query))
    /\ SortField(query) = SortKeyOf(query)

\* C15: a List answered 200 whose two reads saw the same table (no other
\* request was answered between them) reports as total the number of rows that
\* satisfy the predicate of its query string, returns only such rows, and, when
\* page and limit are whole numbers and the sort field is unambiguous, returns
\* the slice [offset, offset + limit) of those rows in the requested order.
C15_SamePredicate ==
    [][(Answered("list") /\ last = ListRequest(list.query) /\ last'.status = 200) =>
            LET query == list.query
                rows == ListMatched(table, query)
            IN  /\ last'.pagination.total = Whole(Len(rows))
                /\ \A i \in 1..Len(last'.data) :
                        \E k \in 1..Len(rows) : last'.data[i] = rows[k]
                /\ PlainPaging(query) =>
                        \E sorted \in OrderBy(rows, SortKeyOf(query), SortOrderOf(query)) :
                            last'.data = Slice(sorted, Offset(query).n \div Scale,
                                               LimitNum(query).n \div Scale)]_vars

\* a List filtered by customerId was answered from a table of two rows, one of
\* them of that customer
C15_Witness ==
    /\ last.op = "list"
    /\ last.status = 200
    /\ Given(last.query.customerId)
    /\ Len(table) = 2
    /\ Len(last.data) = 1
    /\ last.pagination.total = Whole(1)
    /\ last.data[1].customerId = Whole(17850)

\* the operations that write and the status of their success
WriteStatus == [create |-> 201, update |-> 200, delete |-> 200]

\* C16: a step that changes the table answers a Create with 201 or an Update or
\* Delete with 200; a step of List, Get-one, Summary or Top-products leaves the
\* table as it was, and so does a Create, Update or Delete answered 400 or 404.
C16_OnlyWritesChange ==
    [][/\ (table' # table) =>
                /\ last'.op \in DOMAIN WriteStatus
                /\ last'.status = WriteStatus[last'.op]
                /\ last'.success
       /\ (\E op \in {"list", "getOne", "summary", "topProducts"} : last' # last /\ last'.op = op)
                => table' = table
       /\ (list' # list) => table' = table
       /\ (\E op \in DOMAIN WriteStatus : Answered(op) /\ last'.status \in {400, 404})
                => table' = table]_vars

\* with a unique index, a Create of a key the table holds was answered 400 and
\* the table still holds its one row
C16_Witness ==
    /\ last.op = "create"
    /\ last.status = 400
    /\ last.thrown = UniqueViolation
    /\ Len(table) = 1
    /\ HasKey(table, KeyOfBody(last.body))

\* no two rows of tbl have the same (invoiceNo, stockCode)
OneRowPerKey(tbl) == \A i, j \in 1..Len(tbl) : i # j => KeyOf(tbl[i]) # KeyOf(tbl[j])

\* C17: without a uniqueness constraint, a Create that reaches the insert with
\* a key the table already holds, the insert raising nothing but possibly a
\* uniqueness violation, is answered 201 and appends a row with that key beside
\* the rows that have it; the answer 400 'already exists' is given only with a
\* uniqueness constraint and a key the table holds, and with the constraint no
\* two rows ever share a key.
C17_DuplicatesAdmitted ==
    [][/\ (/\ last'.op = "create" /\ last'.status # 0
            /\ (last' # last \/ table' # table)
            /\ ~uniqueIdx
            /\ HasKey(table, KeyOfBody(last'.body))
            /\ last'.sent = 1
            /\ last'.thrown \in {NoError, UniqueViolation}) =>
                /\ last'.status = 201
                /\ Len(last'.data) = 1
                /\ table' = Append(table, last'.data[1])
                /\ KeyOf(last'.data[1]) = KeyOfBody(last'.body)
                /\ ~OneRowPerKey(table')
       /\ (Answered("create") /\ last'.status = 400 /\ last'.thrown = UniqueViolation) =>
                /\ uniqueIdx
                /\ HasKey(table, KeyOfBody(last'.body))
       /\ uniqueIdx => OneRowPerKey(table')]_vars

\* without a uniqueness constraint a Create was answered 201 and the table
\* holds two rows with its key
C17_Witness ==
    /\ ~uniqueIdx
    /\ last.op = "create"
    /\ last.status = 201
    /\ Len(table) = 2
    /\ KeyOf(table[1]) = KeyOf(table[2])
    /\ KeyOf(table[2]) = KeyOfBody(last.body)

\* C18: a Create whose six required properties are present and whose quantity
\* and unitPrice are numbers, zero included, is not rejected by validation: it
\* is not answered 400 before the insert.
C18_ZeroIsValid ==
    [][(/\ Answered("create")
        /\ \A f \in NotNullFields : ~Absent(last'.body[f])
        /\ IsNum(last'.body.quantity)
        /\ IsNum(last'.body.unitPrice)) =>
            ~(last'.status = 400 /\ last'.thrown = NoError)]_vars

====
